---- MODULE Spec2Model ----
(***************************************************************************)
(* Model of the Z-score ranking engine, scripts/zscore_calculator.py       *)
(* (class ZScoreCalculator) with the configuration of scripts/config.py.   *)
(*                                                                         *)
(* Numbers.  Raw statistics are integers.  A Python float that is not a    *)
(* number is NaN; Python's None is None; both are encoded as integers far  *)
(* outside the range of every statistic.  A z-score is a fixed-point       *)
(* number: a zscore_* field holds the z-score times ZScale, truncated      *)
(* towards zero.  Weights are held in tenths.  Means and standard          *)
(* deviations are never rounded: a series is summarised by its length k,   *)
(* its sum S and D = k*SumSq - S^2, so that mean = S/k and                  *)
(* std^2 = D / (k*(k-1)) (pandas' std, ddof = 1).  Sums are exact: the      *)
(* rounding error of a float sum is not modelled.                          *)
(***************************************************************************)
EXTENDS Integers, Sequences, FiniteSets, TLC

NaN == -1000001

None == -1000002

ZDigits == 2

RECURSIVE Pow10(_)
Pow10(d) == IF d = 0 THEN 1 ELSE 10 * Pow10(d - 1)

ZScale == Pow10(ZDigits)

(***************************************************************************)
(* config.py, ZSCORE_CONFIG, and the configuration a calculator holds: the *)
(* constructor keeps the dictionary it is given (ZSCORE_CONFIG by default) *)
(* in self.categories, self.negative_categories and self.weights.          *)
(***************************************************************************)
ZSCORE_CONFIG ==
    [ categories |->
        << "points", "total_rebounds", "assists", "steals", "blocks", "turnovers",
           "field_goal_percentage", "free_throw_percentage", "three_pointers_made" >>,
      negative_categories |-> {"turnovers"},
      weights |->
        [ points |-> 10, total_rebounds |-> 10, assists |-> 10, steals |-> 10,
          blocks |-> 10, turnovers |-> -10, field_goal_percentage |-> 5,
          free_throw_percentage |-> 3, three_pointers_made |-> 8 ] ]

VARIABLE config

categories == config.categories

negative_categories == config.negative_categories

weights == config.weights

min_sample_size == 20

\* f itself, evaluated once (a function constructor is evaluated lazily by TLC)
Concrete(f) == f @@ << >>

Range(s) == { s[i] : i \in DOMAIN s }

CategorySet == Range(categories)

ZCol(category) == "zscore_" \o category

(***************************************************************************)
(* Float arithmetic: NaN propagates, comparisons with NaN are false.       *)
(***************************************************************************)
Abs(x) == IF x < 0 THEN -x ELSE x

Sgn(x) == IF x < 0 THEN -1 ELSE IF x > 0 THEN 1 ELSE 0

IsNum(x) == x # NaN /\ x # None

FMul(x, y) == IF x = NaN \/ y = NaN THEN NaN ELSE x * y

FAdd(x, y) == IF x = NaN \/ y = NaN THEN NaN ELSE x + y

FGt(x, y) == x # NaN /\ y # NaN /\ x > y

FLt(x, y) == x # NaN /\ y # NaN /\ x < y

\* x / y truncated towards zero (y > 0)
TruncDiv(x, y) == Sgn(x) * (Abs(x) \div y)

FDiv(x, y) == IF x = NaN \/ y = NaN THEN NaN ELSE TruncDiv(x, y)

RECURSIVE ISqrtBS(_, _, _)
ISqrtBS(x, lo, hi) ==
    IF lo >= hi THEN lo
    ELSE LET mid == (lo + hi + 1) \div 2
         IN IF mid * mid <= x THEN ISqrtBS(x, mid, hi) ELSE ISqrtBS(x, lo, mid - 1)

\* floor of the square root, 0 <= x < 2^31
ISqrt(x) == ISqrtBS(x, 0, 46340)

\* floor(a * 10^d / b) from the quotient q and remainder r of a by b
RECURSIVE LongDiv(_, _, _, _)
LongDiv(q, r, b, d) ==
    IF d = 0 THEN q
    ELSE LongDiv(10 * q + ((10 * r) \div b), (10 * r) % b, b, d - 1)

(***************************************************************************)
(* pandas Series of numbers (after fillna): sum, mean, std, quantile       *)
(***************************************************************************)
RECURSIVE SumTo(_, _)
SumTo(s, n) == IF n = 0 THEN 0 ELSE s[n] + SumTo(s, n - 1)

Sum(s) == SumTo(s, Len(s))

RECURSIVE SumSqTo(_, _)
SumSqTo(s, n) == IF n = 0 THEN 0 ELSE s[n] * s[n] + SumSqTo(s, n - 1)

\* k*(k-1) times the sample variance
Dev(s) == Len(s) * SumSqTo(s, Len(s)) - Sum(s) * Sum(s)

\* Series.std() == 0; the std of fewer than 2 values is NaN, and NaN == 0 is False
StdIsZero(s) == Len(s) >= 2 /\ Dev(s) = 0

StdIsNaN(s) == Len(s) < 2

\* (v - mean) / std, times ZScale, for a reference series of k values with
\* sum sm and Dev dv, whose std is neither 0 nor NaN
ZQuot(v, k, sm, dv) ==
    LET n == k * v - sm
        a == n * n * (k - 1)
        b == k * dv
    IN Sgn(n) * ISqrt(LongDiv(a \div b, a % b, b, 2 * ZDigits))

\* the number of values of s that are <= v, and the j-th smallest value of s
CountLe(s, v) == Cardinality({ i \in DOMAIN s : s[i] <= v })

Kth(s, j) ==
    CHOOSE v \in Range(s) : CountLe(s, v) >= j /\ CountLe(s, v - 1) < j

\* 5 * Series.quantile(q5 / 5), linear interpolation between order statistics
Quantile5(s, q5) ==
    LET h5 == (Len(s) - 1) * q5
        lo == h5 \div 5
        r  == h5 % 5
    IN IF r = 0 THEN 5 * Kth(s, lo + 1)
       ELSE 5 * Kth(s, lo + 1) + r * (Kth(s, lo + 2) - Kth(s, lo + 1))

(***************************************************************************)
(* pandas DataFrame built from a list of dicts, and back (to_dict)         *)
(***************************************************************************)
Columns(player_stats) == UNION { DOMAIN player_stats[i] : i \in DOMAIN player_stats }

\* DataFrame with the rows in reverse order (as after a descending sort)
DataFrame_ReverseRows(player_stats) ==
    LET columns == Columns(player_stats)
        n       == Len(player_stats)
    IN [ i \in DOMAIN player_stats |->
           [ c \in columns |->
               IF c \in DOMAIN player_stats[n + 1 - i] /\ player_stats[n + 1 - i][c] # None
               THEN player_stats[n + 1 - i][c] ELSE NaN ] ]

\* DataFrame followed by fillna(0) on the whole frame
DataFrame_FillZero(player_stats) ==
    LET columns == Columns(player_stats)
    IN [ i \in DOMAIN player_stats |->
           [ c \in columns |->
               IF c \in DOMAIN player_stats[i] /\ player_stats[i][c] # None
               THEN player_stats[i][c] ELSE 0 ] ]

\* the columns that hold strings (a record's position is a string when it has
\* one); the float NaN is written "NaN" in such a column
StringColumns == {"position"}

IsNull(c, v) == c \notin StringColumns /\ v = None

NaNIn(c) == IF c \in StringColumns THEN "NaN" ELSE NaN

\* pd.DataFrame(player_stats): every row gets every column; a missing key and
\* a None both become NaN
DataFrame(player_stats) ==
    LET columns == Columns(player_stats)
    IN [ i \in DOMAIN player_stats |->
           [ c \in columns |->
               IF c \in DOMAIN player_stats[i] /\ ~IsNull(c, player_stats[i][c])
               THEN player_stats[i][c] ELSE NaNIn(c) ] ]

Column(df, c) == [ i \in DOMAIN df |-> df[i][c] ]

\* fillna(1)
Fillna0_One(col) == [ i \in DOMAIN col |-> IF col[i] = NaN THEN 1 ELSE col[i] ]

Fillna0(col) == [ i \in DOMAIN col |-> IF col[i] = NaN THEN 0 ELSE col[i] ]

Zeros(df) == [ i \in DOMAIN df |-> 0 ]

(***************************************************************************)
(* calculate_zscores, standard path (non-rate categories)                  *)
(***************************************************************************)
\* the values strictly beyond the cutoff
TopPerformers_Strict(values, category) ==
    IF category \in negative_categories
    THEN LET cutoff5 == Quantile5(values, 2)
         IN SelectSeq(values, LAMBDA v : 5 * v < cutoff5)
    ELSE LET cutoff5 == Quantile5(values, 3)
         IN SelectSeq(values, LAMBDA v : 5 * v > cutoff5)

\* the top of every category taken as for a positive one
TopPerformers_Above(values, category) ==
    LET cutoff5 == Quantile5(values, 3)
    IN SelectSeq(values, LAMBDA v : 5 * v >= cutoff5)

TopPerformers(values, category) ==
    IF category \in negative_categories
    THEN LET cutoff5 == Quantile5(values, 2)
         IN SelectSeq(values, LAMBDA v : 5 * v <= cutoff5)
    ELSE LET cutoff5 == Quantile5(values, 3)
         IN SelectSeq(values, LAMBDA v : 5 * v >= cutoff5)

\* mean and std of all values, whatever the number of top performers
Reference_AllValues(values, category) == values

\* the series whose mean and std are used: the top performers when there are
\* at least 2 of them, else all values
Reference(values, category) ==
    LET top_performers == TopPerformers(values, category)
    IN IF Len(top_performers) > 1 THEN top_performers ELSE values

\* (values - mean) / std against a reference series, 0 when its std is 0
ZAgainst(values, ref) ==
    LET k  == Len(ref)
        sm == Sum(ref)
        dv == Dev(ref)
    IN IF k >= 2 /\ dv = 0 THEN [ i \in DOMAIN values |-> 0 ]
       ELSE IF k < 2 THEN [ i \in DOMAIN values |-> NaN ]
       ELSE [ i \in DOMAIN values |-> ZQuot(values[i], k, sm, dv) ]

StandardZScores(df, category) ==
    LET values == Fillna0(Column(df, category))
    IN ZAgainst(values, Reference(values, category))

(***************************************************************************)
(* _calculate_impact_weighted_zscore (shooting percentages)                *)
(***************************************************************************)
RateCategories == {"field_goal_percentage", "free_throw_percentage"}

attempts_column(category) ==
    IF category = "field_goal_percentage" THEN "field_goals_attempted"
    ELSE "free_throws_attempted"

\* validity by the percentage alone
ValidMask_PercentageOnly(df, category) ==
    [ i \in DOMAIN df |-> FGt(df[i][category], 0) ]

ValidMask(df, category) ==
    [ i \in DOMAIN df |->
        /\ FGt(df[i][attempts_column(category)], 0)
        /\ FGt(df[i][category], 0) ]

\* the impacts of the valid players, each multiplied by the number of valid
\* players (the z-score of an impact is the same for the multiples)
ImpactK(df, category, kv, psum, i) ==
    (kv * df[i][category] - psum) * df[i][attempts_column(category)]

ImpactZScores(df, category) ==
    LET valid_mask == ValidMask(df, category)
        idx        == [ i \in DOMAIN df |-> i ]
        valid_idx  == SelectSeq(idx, LAMBDA i : valid_mask[i])
        kv         == Len(valid_idx)
        psum       == Sum([ j \in 1..kv |-> df[valid_idx[j]][category] ])
        impacts    == [ j \in 1..kv |-> ImpactK(df, category, kv, psum, valid_idx[j]) ]
        sm         == Sum(impacts)
        dv         == Dev(impacts)
    IN IF kv = 0 THEN Zeros(df)
       ELSE IF StdIsZero(impacts) THEN Zeros(df)
       ELSE [ i \in DOMAIN df |->
                IF valid_mask[i]
                THEN IF StdIsNaN(impacts) THEN NaN
                     ELSE ZQuot(ImpactK(df, category, kv, psum, i), kv, sm, dv)
                ELSE 0 ]

\* the standard z-score of the percentages, whatever the attempts
_calculate_impact_weighted_zscore_Standard(df, category) ==
    LET values == Fillna0(Column(df, category))
    IN ZAgainst(values, values)

_calculate_impact_weighted_zscore(df, category) ==
    IF attempts_column(category) \notin DOMAIN df[1]
    THEN LET values == Fillna0(Column(df, category))
         IN ZAgainst(values, values)
    ELSE ImpactZScores(df, category)

(***************************************************************************)
(* _calculate_composite_zscore                                             *)
(***************************************************************************)
\* the sum with every configured weight taken as 1.0
RECURSIVE WeightedSum_Unweighted(_, _)
WeightedSum_Unweighted(row, n) ==
    IF n = 0 THEN 0
    ELSE LET category == categories[n]
         IN IF ZCol(category) \in DOMAIN row /\ category \in DOMAIN weights
            THEN FAdd(WeightedSum_Unweighted(row, n - 1), FMul(row[ZCol(category)], 10))
            ELSE WeightedSum_Unweighted(row, n - 1)

RECURSIVE WeightedSum(_, _)
WeightedSum(row, n) ==
    IF n = 0 THEN 0
    ELSE LET category == categories[n]
         IN IF ZCol(category) \in DOMAIN row /\ category \in DOMAIN weights
            THEN FAdd(WeightedSum(row, n - 1),
                      FMul(row[ZCol(category)], Abs(weights[category])))
            ELSE WeightedSum(row, n - 1)

RECURSIVE TotalWeight(_, _)
TotalWeight(cols, n) ==
    IF n = 0 THEN 0
    ELSE LET category == categories[n]
         IN IF ZCol(category) \in cols /\ category \in DOMAIN weights
            THEN TotalWeight(cols, n - 1) + Abs(weights[category])
            ELSE TotalWeight(cols, n - 1)

_calculate_composite_zscore(df) ==
    LET total_weight == TotalWeight(DOMAIN df[1], Len(categories))
    IN [ i \in DOMAIN df |->
           IF total_weight > 0
           THEN FDiv(WeightedSum(df[i], Len(categories)), total_weight)
           ELSE WeightedSum(df[i], Len(categories)) ]

(***************************************************************************)
(* calculate_zscores                                                       *)
(***************************************************************************)
\* the loop leaving out the shooting percentages
ScoredCategories_NonRate(df) ==
    { c \in CategorySet \ {"field_goal_percentage", "free_throw_percentage"} :
        c \in DOMAIN df[1] }

\* the categories the loop scores: those that are a column of the frame
ScoredCategories(df) == { c \in CategorySet : c \in DOMAIN df[1] }

CategoryZScores(df, category) ==
    IF category \in RateCategories
    THEN _calculate_impact_weighted_zscore(df, category)
    ELSE StandardZScores(df, category)

\* a zscore_<category> column the input carried is kept, not overwritten
WithCategoryZScores_KeepExisting(df) ==
    LET scored == ScoredCategories(df)
        z      == Concrete([ c \in scored |-> Concrete(CategoryZScores(df, c)) ])
    IN [ i \in DOMAIN df |->
           df[i] @@
           [ col \in { ZCol(c) : c \in scored } |->
               LET c == CHOOSE c \in scored : ZCol(c) = col IN z[c][i] ] ]

\* df after the loop over the categories: one zscore_<category> column per
\* scored category (a column of that name the input carried is overwritten)
WithCategoryZScores(df) ==
    LET scored == ScoredCategories(df)
        z      == Concrete([ c \in scored |-> Concrete(CategoryZScores(df, c)) ])
    IN [ i \in DOMAIN df |->
           [ col \in { ZCol(c) : c \in scored } |->
               LET c == CHOOSE c \in scored : ZCol(c) = col IN z[c][i] ]
           @@ df[i] ]

\* the inversion step left out
WithTurnoverInversion_Skipped(df) == df

\* manual inversion for turnovers
WithTurnoverInversion(df) ==
    IF "zscore_turnovers" \in DOMAIN df[1]
    THEN [ i \in DOMAIN df |->
             [ df[i] EXCEPT !["zscore_turnovers"] = FMul(@, -1) ] ]
    ELSE df

WithComposite(df) ==
    LET composite == Concrete(_calculate_composite_zscore(df))
    IN [ i \in DOMAIN df |->
           [ col \in {"zscore_total"} |-> composite[i] ] @@ df[i] ]

\* the body of calculate_zscores after the sample-size check
ScoreBatch(player_stats) ==
    WithComposite(WithTurnoverInversion(WithCategoryZScores(DataFrame(player_stats))))

\* calculate_zscores with the guard of the ranking functions (empty list only)
calculate_zscores_EmptyGuard(player_stats) ==
    IF Len(player_stats) = 0 THEN player_stats ELSE ScoreBatch(player_stats)

calculate_zscores(player_stats) ==
    IF Len(player_stats) < min_sample_size
    THEN player_stats
    ELSE ScoreBatch(player_stats)

(***************************************************************************)
(* sorted(player_stats, key = ..., reverse = True): CPython's list.sort for *)
(* fewer than 64 elements.  The list is reversed, its leading run is found *)
(* (and reversed when strictly descending), the remaining elements are     *)
(* inserted by binary insertion, and the list is reversed again.  Every    *)
(* comparison is key[x] < key[y], which is False when a key is NaN.        *)
(* A list is a sequence of positions into keys.                            *)
(***************************************************************************)
Reverse(a) == [ i \in 1..Len(a) |-> a[Len(a) + 1 - i] ]

\* count_run: the length of the run that starts at a[1], given its first n elements
RECURSIVE RunLength(_, _, _, _)
RunLength(a, keys, n, descending) ==
    IF n >= Len(a) THEN n
    ELSE IF FLt(keys[a[n + 1]], keys[a[n]]) = descending
         THEN RunLength(a, keys, n + 1, descending)
         ELSE n

\* binarysort's search: where the pivot goes among a[l..r-1]
RECURSIVE InsertionPoint(_, _, _, _, _)
InsertionPoint(a, keys, pivot, l, r) ==
    IF l >= r THEN l
    ELSE LET p == l + ((r - l) \div 2)
         IN IF FLt(keys[pivot], keys[a[p]])
            THEN InsertionPoint(a, keys, pivot, l, p)
            ELSE InsertionPoint(a, keys, pivot, p + 1, r)

\* binarysort: a[1..start-1] is sorted, insert a[start..]
RECURSIVE BinarySort(_, _, _)
BinarySort(a, keys, start) ==
    IF start > Len(a) THEN a
    ELSE LET l == InsertionPoint(a, keys, a[start], 1, start)
         IN BinarySort(SubSeq(a, 1, l - 1) \o << a[start] >> \o SubSeq(a, l, start - 1)
                           \o SubSeq(a, start + 1, Len(a)),
                       keys, start + 1)

ListSort(a, keys) ==
    IF Len(a) < 2 THEN a
    ELSE LET descending == FLt(keys[a[2]], keys[a[1]])
             n          == RunLength(a, keys, 2, descending)
             run        == IF descending
                           THEN Concrete(Reverse(SubSeq(a, 1, n))) \o SubSeq(a, n + 1, Len(a))
                           ELSE a
         IN BinarySort(run, keys, n + 1)

\* sorted without reverse = True
SortedReverse_Ascending(keys) == ListSort([ i \in 1..Len(keys) |-> i ], keys)

\* an ascending sort whose result is reversed (equal keys end up reversed)
SortedReverse_Unstable(keys) ==
    Reverse(ListSort([ i \in 1..Len(keys) |-> i ], keys))

\* the positions 1..Len(keys) in the order sorted(..., reverse = True) returns
SortedReverse(keys) ==
    Reverse(ListSort(Concrete(Reverse([ i \in 1..Len(keys) |-> i ])), keys))

(***************************************************************************)
(* The batches handed to the calculator: up to three runs of players with  *)
(* the same stat line, player_id = position in the batch.                  *)
(***************************************************************************)
MaxExtra == 1

MkRecord(id, line) == [ f \in {"player_id"} |-> id ] @@ line

Build(shape, lines) ==
    [ i \in 1..(shape[1] + shape[2] + shape[3]) |->
        MkRecord(i, IF i <= shape[1] THEN lines[1]
                    ELSE IF i <= shape[1] + shape[2] THEN lines[2]
                    ELSE lines[3]) ]

SmallShapes == { <<0, 0, 0>>, <<2, 2, 1>>, <<1, 9, 9>> }

BigShapes ==
    UNION { { <<1, 1, 18 + e>>, <<1, 9, 10 + e>>, <<7, 7, 6 + e>> } : e \in 0..MaxExtra }

\* stat lines with the two non-rate categories points (higher is better) and
\* turnovers (lower is better); a key can be missing, a value can be None
StdLines ==
    [ points : {None, 0, 3}, turnovers : {None, 1, 2, 4} ] \cup [ turnovers : {None, 1, 2, 4} ]

StdMiddle == { [ points |-> 1, turnovers |-> 2 ] }

\* stat lines with a shooting percentage (in tenths) and its attempts
RateLines ==
    [ field_goal_percentage : {None, 0, 4, 5}, field_goals_attempted : {0, 1, 3} ]

RateMiddle ==
    { [ field_goal_percentage |-> 4, field_goals_attempted |-> 1 ],
      [ field_goal_percentage |-> 4, field_goals_attempted |-> 0 ] }

\* a shooting percentage without its attempts column
PctLines == [ field_goal_percentage : {None, 4, 5} ]

\* records that already carry derived fields (a batch scored or ranked before)
PreFields ==
    [ points |-> 3, zscore_points |-> 50, zscore_turnovers |-> 20, zscore_total |-> 70,
      overall_rank |-> 9 ]

PreLines ==
    { [ f \in {"points"} \cup fields |-> PreFields[f] ] :
        fields \in SUBSET {"zscore_points", "zscore_turnovers", "zscore_total", "overall_rank"} }

PreMiddle == { [ points |-> 1 ] }

PreLast == { [ points |-> 0 ], [ points |-> 0, zscore_total |-> 40 ] }

LineTriples ==
    (StdLines \X StdMiddle \X StdLines) \cup (RateLines \X RateMiddle \X RateLines)
        \cup (PctLines \X PctLines \X PctLines) \cup (PreLines \X PreMiddle \X PreLast)

Batches ==
    { Build(shape, lines) : shape \in SmallShapes \cup BigShapes, lines \in LineTriples }

(***************************************************************************)
(* get_overall_rankings.  The list it is given is a sequence of positions  *)
(* into records (the dicts, which it updates in place); it returns the     *)
(* sorted list, again as positions, and the updated dicts.                 *)
(***************************************************************************)
\* x.get(field, default)
Get(x, field, default) == IF field \in DOMAIN x THEN x[field] ELSE default

OverallKeys(records, list) ==
    [ j \in 1..Len(list) |-> Get(records[list[j]], "zscore_total", 0) ]

sorted_overall(records, list) ==
    LET order == SortedReverse(Concrete(OverallKeys(records, list)))
    IN [ j \in 1..Len(list) |-> list[order[j]] ]

\* the rank written without the + 1
WithOverallRank_ZeroBased(records, sorted) ==
    [ i \in DOMAIN records |->
        IF \E j \in DOMAIN sorted : sorted[j] = i
        THEN [ f \in {"overall_rank"} |->
                 (CHOOSE j \in DOMAIN sorted : sorted[j] = i) - 1 ] @@ records[i]
        ELSE records[i] ]

\* for i, player in enumerate(sorted_stats): player['overall_rank'] = i + 1
WithOverallRank(records, sorted) ==
    [ i \in DOMAIN records |->
        IF \E j \in DOMAIN sorted : sorted[j] = i
        THEN [ f \in {"overall_rank"} |-> CHOOSE j \in DOMAIN sorted : sorted[j] = i ]
                 @@ records[i]
        ELSE records[i] ]

(***************************************************************************)
(* State: the caller's list player_stats, the list result returned by      *)
(* calculate_zscores (the very same list and dicts for a batch below       *)
(* min_sample_size), the list sorted_stats returned by the latest ranking  *)
(* call as positions into result.  ncalls, first_rank and last_input       *)
(* record the ranking calls made so far.                                   *)
(***************************************************************************)
VARIABLES player_stats, result, pc, sorted_stats, ncalls, first_rank, last_input

\* prev: the configuration and the result of the calculator used before the
\* present one was constructed.  call: the latest ranking or percentile call.
\* threads: the invocations of calculate_zscores that run concurrently.
VARIABLES prev, call, threads

\* table: the rows of one statistics table of the database.  run: the running
\* invocation of update_ranks_for_season.  history: the invocations that
\* returned, in order.
VARIABLES table, run, history

dbvars == << table, run, history >>

vars ==
    << config, player_stats, result, pc, sorted_stats, ncalls, first_rank, last_input,
       prev, call, threads, dbvars >>

\* the state of a caller that has a batch and has called nothing yet
NothingCalled ==
    /\ result = << >>
    /\ pc = "start"
    /\ sorted_stats = << >>
    /\ ncalls = 0
    /\ first_rank = << >>
    /\ last_input = << >>
    /\ prev = << >>
    /\ call = << >>
    /\ threads = << >>
    /\ table = << >>
    /\ run = << >>
    /\ history = << >>

Init ==
    /\ config = ZSCORE_CONFIG
    /\ player_stats \in Batches
    /\ NothingCalled

\* calculate_zscores returned the list it was given
ReturnedInput == Len(player_stats) < min_sample_size

CalculateZscores ==
    /\ pc = "start"
    /\ result' = calculate_zscores(player_stats)
    /\ pc' = "scored"
    /\ UNCHANGED << config, player_stats, sorted_stats, ncalls, first_rank, last_input,
                    prev, call, threads, dbvars >>

\* get_overall_rankings on the list calculate_zscores returned ("result") or on
\* the list the previous ranking call returned ("sorted")
GetOverallRankings(arg) ==
    /\ pc = "scored"
    /\ ncalls < 2
    /\ arg = "sorted" => ncalls > 0
    /\ LET list   == IF arg = "result" THEN [ i \in 1..Len(result) |-> i ] ELSE sorted_stats
           sorted == Concrete(sorted_overall(result, list))
           ranked == Concrete(WithOverallRank(result, sorted))
       IN /\ result' = ranked
          /\ sorted_stats' = sorted
          /\ player_stats' = IF ReturnedInput THEN ranked ELSE player_stats
          /\ first_rank' = IF ncalls = 0
                           THEN [ i \in DOMAIN ranked |-> ranked[i]["overall_rank"] ]
                           ELSE first_rank
          /\ last_input' = list
    /\ ncalls' = ncalls + 1
    /\ call' = [ op |-> "get_overall_rankings", arg |-> "", before |-> result ]
    /\ UNCHANGED << config, pc, prev, threads, dbvars >>

Next ==
    \/ CalculateZscores
    \/ \E arg \in {"result", "sorted"} : GetOverallRankings(arg)

Spec == Init /\ [][Next]_vars

(***************************************************************************)
(* Calculators constructed with other configurations than ZSCORE_CONFIG    *)
(* (ZScoreCalculator(config)), and a second calculator constructed with   *)
(* another configuration and run on the same batch.                        *)
(***************************************************************************)
ZeroWeights == [ c \in Range(ZSCORE_CONFIG.categories) |-> 0 ]

Configs ==
    { [ ZSCORE_CONFIG EXCEPT !.negative_categories = neg,
                             !.weights = [ @ EXCEPT !.points = wp, !.turnovers = wt ] ] :
        neg \in { {"turnovers"}, {"points", "turnovers"} },
        wp \in {0, 5, 20}, wt \in {-10, 0} }
    \cup { [ ZSCORE_CONFIG EXCEPT !.weights = ZeroWeights ],
           [ ZSCORE_CONFIG EXCEPT !.weights = [ points |-> 10 ] ] }

ConfigShapes == { <<1, 1, 18>>, <<7, 7, 6 + MaxExtra>> }

ConfigTriples ==
    { << [ points |-> 3, turnovers |-> 1 ], [ points |-> 1, turnovers |-> 2 ],
         [ points |-> 0, turnovers |-> 4 ] >>,
      << [ points |-> 3, turnovers |-> 2 ], [ points |-> 1, turnovers |-> 2 ],
         [ points |-> 0, turnovers |-> 2 ] >>,
      << [ turnovers |-> 1 ], [ turnovers |-> 2 ], [ turnovers |-> 4 ] >>,
      << [ field_goal_percentage |-> None, field_goals_attempted |-> 0 ],
         [ field_goal_percentage |-> 4, field_goals_attempted |-> 1 ],
         [ field_goal_percentage |-> None, field_goals_attempted |-> 0 ] >>,
      << [ field_goal_percentage |-> 5, field_goals_attempted |-> 3 ],
         [ field_goal_percentage |-> 4, field_goals_attempted |-> 1 ],
         [ field_goal_percentage |-> 4, field_goals_attempted |-> 3 ] >>,
      << [ games_played |-> 3 ], [ games_played |-> 1 ], [ games_played |-> 0 ] >> }

ConfigBatches ==
    { Build(shape, lines) : shape \in ConfigShapes, lines \in ConfigTriples }

InitConfig ==
    /\ config \in Configs
    /\ player_stats \in ConfigBatches
    /\ NothingCalled

\* ZScoreCalculator(cfg): a second calculator, to be run on the same batch
Construct(cfg) ==
    /\ pc = "scored"
    /\ prev = << >>
    /\ prev' = [ config |-> config, result |-> result ]
    /\ config' = cfg
    /\ result' = << >>
    /\ pc' = "start"
    /\ UNCHANGED << player_stats, sorted_stats, ncalls, first_rank, last_input, call,
                    threads, dbvars >>

NextConfig ==
    \/ CalculateZscores
    \/ \E cfg \in Configs : Construct(cfg)

SpecConfig == InitConfig /\ [][NextConfig]_vars

(***************************************************************************)
(* get_category_rankings, get_position_rankings, calculate_percentiles.    *)
(* As for get_overall_rankings a list is a sequence of positions into      *)
(* records, the dicts the ranking functions update in place.               *)
(***************************************************************************)
\* key=lambda x: x.get(field, 0)
KeysOf(records, list, field) ==
    [ j \in 1..Len(list) |-> Get(records[list[j]], field, 0) ]

\* sorted(list, key=lambda x: x.get(field, 0), reverse=True)
sorted_by(records, list, field) ==
    LET order == SortedReverse(Concrete(KeysOf(records, list, field)))
    IN [ j \in 1..Len(list) |-> list[order[j]] ]

\* for i, player in enumerate(sorted_stats): player[rank_field] = i + 1
WithRank(records, sorted, rank_field) ==
    [ i \in DOMAIN records |->
        IF \E j \in DOMAIN sorted : sorted[j] = i
        THEN [ f \in {rank_field} |-> CHOOSE j \in DOMAIN sorted : sorted[j] = i ]
                 @@ records[i]
        ELSE records[i] ]

RankCol(name) == name \o "_rank"

\* the positions a caller asks a ranking for
PositionArguments == {"PG", "pg", "C", "SF"}

\* str.upper and str.lower on the positions of the records and the callers
upper(str) ==
    CASE str \in {"pg", "Pg"} -> "PG"
      [] str = "c" -> "C"
      [] OTHER -> str

lower(str) ==
    CASE str \in {"PG", "Pg"} -> "pg"
      [] str = "C" -> "c"
      [] str = "SF" -> "sf"
      [] OTHER -> str

\* position_players: the records of list with player.get('position', '').upper()
\* equal to position.upper()
position_players(records, list, position) ==
    SelectSeq(list, LAMBDA i : upper(Get(records[i], "position", "")) = upper(position))

\* round(n / d) to the nearest integer, halves to the even one (n >= 0, d > 0)
RoundHalfEven(n, d) ==
    LET q == n \div d
        r == n % d
    IN IF 2 * r > d \/ (2 * r = d /\ q % 2 = 1) THEN q + 1 ELSE q

\* (Series.rank(pct=True) * 100).round(1) in tenths: the average rank of col[i]
\* among the values that are not NaN, over their number; NaN stays NaN
PercentileRank(col, i) ==
    IF col[i] = NaN THEN NaN
    ELSE LET count == Cardinality({ k \in DOMAIN col : col[k] # NaN })
             less  == Cardinality({ k \in DOMAIN col : col[k] # NaN /\ col[k] < col[i] })
             equal == Cardinality({ k \in DOMAIN col : col[k] = col[i] })
         IN RoundHalfEven(1000 * (2 * less + equal + 1), 2 * count)

PercentileCol(category) == category \o "_percentile"

\* the zscore_ columns calculate_percentiles ranks, with the columns it writes
PercentileColumns(df) ==
    { << ZCol(c), PercentileCol(c) >> : c \in { c \in CategorySet : ZCol(c) \in DOMAIN df[1] } }
        \cup (IF "zscore_total" \in DOMAIN df[1]
              THEN { << "zscore_total", "overall_percentile" >> } ELSE {})

calculate_percentiles(records) ==
    IF Len(records) = 0 THEN << >>
    ELSE LET df   == Concrete(DataFrame(records))
             cols == PercentileColumns(df)
             pct  == Concrete([ zp \in cols |->
                         LET col == Concrete(Column(df, zp[1]))
                         IN Concrete([ i \in DOMAIN df |-> PercentileRank(col, i) ]) ])
         IN [ i \in DOMAIN df |->
                [ f \in { zp[2] : zp \in cols } |->
                    pct[CHOOSE zp \in cols : zp[2] = f][i] ] @@ df[i] ]

(***************************************************************************)
(* A caller that scores a batch of players with positions and then makes   *)
(* up to MaxCalls ranking or percentile calls on the returned list.        *)
(***************************************************************************)
MaxCalls == 2

RankShapes == { <<2, 2, 1>>, <<1, 1, 18>>, <<7, 7, 6 + MaxExtra>> }

RankTriples ==
    { << [ position |-> "pg", points |-> 1, assists |-> 1, turnovers |-> 2 ],
         [ position |-> "PG", points |-> 3, assists |-> 3, turnovers |-> 1 ],
         [ position |-> "C", points |-> 0, assists |-> 0, turnovers |-> 4 ] >>,
      << [ position |-> "PG", points |-> 2, turnovers |-> 2, steals |-> 3 ],
         [ position |-> "C", points |-> 3, turnovers |-> 1, steals |-> 0 ],
         [ position |-> "Pg", points |-> 0, turnovers |-> 4, steals |-> 0 ] >>,
      << [ position |-> "C", field_goal_percentage |-> None, field_goals_attempted |-> 0 ],
         [ position |-> "c", field_goal_percentage |-> 4, field_goals_attempted |-> 1 ],
         [ position |-> "PG", field_goal_percentage |-> None, field_goals_attempted |-> 0 ] >>,
      << [ position |-> "PG", field_goal_percentage |-> 5, field_goals_attempted |-> 3 ],
         [ position |-> "C", field_goal_percentage |-> 4, field_goals_attempted |-> 1 ],
         [ position |-> "pg", field_goal_percentage |-> 4, field_goals_attempted |-> 3 ] >>,
      << [ points |-> 3 ], [ position |-> "PG", points |-> 1 ],
         [ position |-> "Pg", points |-> 0 ] >> }

RankBatches == { Build(shape, lines) : shape \in RankShapes, lines \in RankTriples }

\* the categories a caller asks a ranking for
RankedCategories == {"points", "turnovers", "field_goal_percentage"}

InitRank ==
    /\ config = ZSCORE_CONFIG
    /\ player_stats \in RankBatches
    /\ NothingCalled

\* a ranking call that sorted the list it was given in place (list.sort)
ResultList_Sorted ==
    IF Len(sorted_stats) = Len(result) THEN sorted_stats
    ELSE [ i \in 1..Len(result) |-> i ]

\* the list calculate_zscores returned, as the argument of a call
ResultList == [ i \in 1..Len(result) |-> i ]

\* a ranking call returned sorted and left the dicts as ranked
Ranked(op, arg, sorted, ranked) ==
    /\ result' = ranked
    /\ sorted_stats' = sorted
    /\ player_stats' = IF ReturnedInput THEN ranked ELSE player_stats
    /\ last_input' = ResultList
    /\ ncalls' = ncalls + 1
    /\ call' = [ op |-> op, arg |-> arg, before |-> result ]
    /\ UNCHANGED << config, pc, first_rank, prev, threads, dbvars >>

GetCategoryRankings(category) ==
    /\ pc = "scored"
    /\ ncalls < MaxCalls
    /\ LET sorted == Concrete(sorted_by(result, ResultList, ZCol(category)))
       IN Ranked("get_category_rankings", category, sorted,
                 Concrete(WithRank(result, sorted, RankCol(category))))

\* player.get('position', '').upper() raises AttributeError for a float
NoUpper(records) ==
    \E i \in DOMAIN records : Get(records[i], "position", "") = NaNIn("position")

GetPositionRankings(position) ==
    /\ pc = "scored"
    /\ ncalls < MaxCalls
    /\ IF NoUpper(result)
       THEN /\ pc' = "raised"
            /\ ncalls' = ncalls + 1
            /\ call' = [ op |-> "get_position_rankings", arg |-> position,
                         before |-> result ]
            /\ UNCHANGED << config, player_stats, result, sorted_stats, first_rank,
                            last_input, prev, threads, dbvars >>
       ELSE LET players == Concrete(position_players(result, ResultList, position))
                sorted  == Concrete(sorted_by(result, players, "zscore_total"))
            IN Ranked("get_position_rankings", position, sorted,
                      Concrete(WithRank(result, sorted, RankCol(lower(position)))))

\* calculate_percentiles returns new records and leaves its argument alone
CalculatePercentiles ==
    /\ pc = "scored"
    /\ ncalls < MaxCalls
    /\ call' = [ op |-> "calculate_percentiles", arg |-> "", before |-> result,
                 out |-> Concrete(calculate_percentiles(result)) ]
    /\ ncalls' = ncalls + 1
    /\ UNCHANGED << config, player_stats, result, pc, sorted_stats, first_rank,
                    last_input, prev, threads, dbvars >>

NextRank ==
    \/ CalculateZscores
    \/ GetOverallRankings("result")
    \/ \E category \in RankedCategories : GetCategoryRankings(category)
    \/ \E position \in PositionArguments : GetPositionRankings(position)
    \/ CalculatePercentiles

SpecRank == InitRank /\ [][NextRank]_vars

(***************************************************************************)
(* Concurrent invocations of calculate_zscores on one calculator, each on  *)
(* its own batch.  An invocation keeps its frame df and the position k of  *)
(* its loop over self.categories in local variables; a step is the guard   *)
(* with the DataFrame construction, one iteration of the loop, the         *)
(* turnover inversion, the composite, or the return.                       *)
(***************************************************************************)
Threads == {1, 2}

ThreadBatches ==
    { Build(<<1, 1, 18>>, << [ points |-> 3, turnovers |-> 1 ],
                             [ points |-> 1, turnovers |-> 2 ],
                             [ points |-> 0, turnovers |-> 4 ] >>),
      Build(<<7, 7, 6 + MaxExtra>>,
            << [ points |-> 0, turnovers |-> 4 ], [ points |-> 1, turnovers |-> 2 ],
               [ points |-> 3, turnovers |-> None ] >>),
      Build(<<1, 1, 18>>,
            << [ field_goal_percentage |-> 5, field_goals_attempted |-> 3 ],
               [ field_goal_percentage |-> 4, field_goals_attempted |-> 1 ],
               [ field_goal_percentage |-> 4, field_goals_attempted |-> 3 ] >>),
      Build(<<2, 2, 1>>, << [ points |-> 3 ], [ points |-> 1 ], [ points |-> 0 ] >>) }

InitThreads ==
    /\ config = ZSCORE_CONFIG
    /\ threads \in [ Threads ->
                      [ pc : {"start"}, player_stats : ThreadBatches, df : { << >> },
                        k : {1}, result : { << >> } ] ]
    /\ player_stats = << >>
    /\ result = << >>
    /\ pc = "threads"
    /\ sorted_stats = << >>
    /\ ncalls = 0
    /\ first_rank = << >>
    /\ last_input = << >>
    /\ prev = << >>
    /\ call = << >>
    /\ table = << >>
    /\ run = << >>
    /\ history = << >>

\* a loop variable shared by the invocations (the one of invocation 1)
LoopIndex_Shared(t) == threads[1].k

\* the position in self.categories of the loop of invocation t
LoopIndex(t) == threads[t].k

\* one iteration of the loop over the categories
WithCategory(df, category) ==
    IF category \notin DOMAIN df[1] THEN df
    ELSE LET z == Concrete(CategoryZScores(df, category))
         IN [ i \in DOMAIN df |-> [ col \in {ZCol(category)} |-> z[i] ] @@ df[i] ]

ThreadStep(t, next) ==
    /\ threads' = [ threads EXCEPT ![t] = next ]
    /\ UNCHANGED << config, player_stats, result, pc, sorted_stats, ncalls, first_rank,
                    last_input, prev, call, dbvars >>

BeginThread(t) ==
    /\ threads[t].pc = "start"
    /\ ThreadStep(t,
          IF Len(threads[t].player_stats) < min_sample_size
          THEN [ threads[t] EXCEPT !.pc = "done", !.result = threads[t].player_stats ]
          ELSE [ threads[t] EXCEPT !.pc = "loop",
                                   !.df = Concrete(DataFrame(threads[t].player_stats)) ])

ScoreCategory(t) ==
    /\ threads[t].pc = "loop"
    /\ ThreadStep(t,
          IF LoopIndex(t) > Len(categories)
          THEN [ threads[t] EXCEPT !.pc = "invert" ]
          ELSE [ threads[t] EXCEPT
                   !.df = Concrete(WithCategory(threads[t].df, categories[LoopIndex(t)])),
                   !.k = LoopIndex(t) + 1 ])

InvertTurnovers(t) ==
    /\ threads[t].pc = "invert"
    /\ ThreadStep(t, [ threads[t] EXCEPT !.pc = "composite",
                                         !.df = Concrete(WithTurnoverInversion(threads[t].df)) ])

Composite(t) ==
    /\ threads[t].pc = "composite"
    /\ ThreadStep(t, [ threads[t] EXCEPT !.pc = "return",
                                         !.df = Concrete(WithComposite(threads[t].df)) ])

ReturnThread(t) ==
    /\ threads[t].pc = "return"
    /\ ThreadStep(t, [ threads[t] EXCEPT !.pc = "done", !.result = threads[t].df ])

NextThreads ==
    \E t \in Threads :
        \/ BeginThread(t)
        \/ ScoreCategory(t)
        \/ InvertTurnovers(t)
        \/ Composite(t)
        \/ ReturnThread(t)

SpecThreads == InitThreads /\ [][NextThreads]_vars

(***************************************************************************)
(* A caller that gives calculate_zscores the list it returned: batches     *)
(* whose records have every configured category, and batches with few.     *)
(***************************************************************************)
\* a stat line with every configured category: points p, the shooting
\* percentage and attempts fa
FullLine(p, fa) ==
    [ points |-> p, total_rebounds |-> 2, assists |-> 1,
      steals |-> IF p = 3 THEN 2 ELSE 0, blocks |-> 0,
      turnovers |-> IF p = 0 THEN 4 ELSE 1,
      field_goal_percentage |-> fa[1], field_goals_attempted |-> fa[2],
      free_throw_percentage |-> 8, three_pointers_made |-> 1 ]

Shooting == { << None, 0 >>, << 4, 1 >>, << 5, 3 >> }

FullTriples ==
    { << FullLine(p, fa), FullLine(1, m), FullLine(q, << 4, 3 >>) >> :
        p \in {None, 0, 3}, fa \in Shooting, m \in { << None, 0 >>, << 4, 1 >> },
        q \in {None, 0, 3} }

FullBatches ==
    { Build(shape, lines) :
        shape \in { <<1, 1, 18>>, <<7, 7, 6 + MaxExtra>> }, lines \in FullTriples }

InitRescore ==
    /\ config = ZSCORE_CONFIG
    /\ player_stats \in FullBatches \cup ThreadBatches
    /\ NothingCalled

\* calculate_zscores(result): the list returned is scored again
Rescore ==
    /\ pc = "scored"
    /\ prev' = [ config |-> config, result |-> result ]
    /\ result' = calculate_zscores(result)
    /\ pc' = "rescored"
    /\ UNCHANGED << config, player_stats, sorted_stats, ncalls, first_rank, last_input,
                    call, threads, dbvars >>

NextRescore ==
    \/ CalculateZscores
    \/ Rescore

SpecRescore == InitRescore /\ [][NextRescore]_vars

(***************************************************************************)
(* update_ranks_for_season of update_zscore_ranks.py on one table.  Every  *)
(* request to the database is a step; a request can raise.  The database   *)
(* orders the rows by zscore_total descending, nulls first, and rows with  *)
(* equal zscore_total in an order of its own choosing.                     *)
(***************************************************************************)
Ids == {1, 2, 3}

\* the season of rows 1 and 2, and a season with row 3 or without rows
Seasons == {"2024-25", "2023-24"}

Rows ==
    [ season : {"2024-25", "2023-24"}, zscore_total : {None, 5, 7},
      overall_rank : {None, 1, 2, 3} ]

Tables ==
    { t \in [ Ids -> Rows ] :
        /\ t[1].season = "2024-25" /\ t[2].season = "2024-25"
        /\ t[1].zscore_total # 5 /\ t[2].zscore_total # None
        /\ t[3].overall_rank \in {None, 3} }

\* the number of invocations of update_ranks_for_season in a row
MaxRuns == 2

\* .eq("season", season)
SeasonIds(season) == { id \in Ids : table[id].season = season }

\* ORDER BY zscore_total DESC puts a before b
Desc(a, b) == a = None \/ (b # None /\ a >= b)

\* .order("zscore_total", desc=True): the orders the database can answer with
Orders(season) ==
    LET ids == SeasonIds(season)
        n   == Cardinality(ids)
    IN { o \in [ 1..n -> ids ] :
           /\ \A j, k \in 1..n : j # k => o[j] # o[k]
           /\ \A j, k \in 1..n :
                  j < k => Desc(table[o[j]].zscore_total, table[o[k]].zscore_total) }

\* response.data: "id, player_id, zscore_total, overall_rank" of the rows
Players(order) ==
    [ j \in 1..Len(order) |->
        [ id |-> order[j], zscore_total |-> table[order[j]].zscore_total,
          overall_rank |-> table[order[j]].overall_rank ] ]

\* the updates list: one entry for every player whose current_rank != rank
Updates(players) ==
    LET changed == SelectSeq([ j \in 1..Len(players) |-> j ],
                             LAMBDA j : players[j].overall_rank # j)
    IN [ k \in 1..Len(changed) |->
           [ id |-> players[changed[k]].id, overall_rank |-> changed[k] ] ]

\* the dry_run flag is not looked at
ReturnsBeforeUpdating_IgnoresDryRun(dry_run, players, updates) ==
    Len(players) = 0 \/ Len(updates) = 0

\* no data, no rank changes or a dry run: return True without an update
ReturnsBeforeUpdating(dry_run, players, updates) ==
    Len(players) = 0 \/ Len(updates) = 0 \/ dry_run

Idle == [ pc |-> "idle", season |-> run.season ]

\* update_ranks_for_season returned value; it had sent the requests written
Return(dry_run, fetched, value, before, after, written) ==
    /\ history' = Append(history,
                     [ season |-> run.season, dry_run |-> dry_run, fetched |-> fetched,
                       returned |-> value, before |-> before, after |-> after,
                       written |-> written ])
    /\ run' = Idle

InitUpdate ==
    /\ config = ZSCORE_CONFIG
    /\ player_stats = << >>
    /\ result = << >>
    /\ pc = "update"
    /\ sorted_stats = << >>
    /\ ncalls = 0
    /\ first_rank = << >>
    /\ last_input = << >>
    /\ prev = << >>
    /\ call = << >>
    /\ threads = << >>
    /\ table \in Tables
    /\ run \in [ pc : {"idle"}, season : Seasons ]
    /\ history = << >>

UpdateFrame ==
    UNCHANGED << config, player_stats, result, pc, sorted_stats, ncalls, first_rank,
                 last_input, prev, call, threads >>

\* the select is answered with the rows in order; the updates list is built
Fetch(dry_run, order) ==
    /\ run.pc = "idle"
    /\ Len(history) < MaxRuns
    /\ LET players == Players(order)
           updates == Updates(players)
       IN IF ReturnsBeforeUpdating(dry_run, players, updates)
          THEN Return(dry_run, TRUE, TRUE, table, table, << >>)
          ELSE /\ run' = [ pc |-> "updating", season |-> run.season,
                           dry_run |-> dry_run, updates |-> updates, i |-> 1,
                           before |-> table ]
               /\ UNCHANGED history
    /\ UNCHANGED table
    /\ UpdateFrame

\* the select raises: the outer except returns False
FetchFails(dry_run) ==
    /\ run.pc = "idle"
    /\ Len(history) < MaxRuns
    /\ Return(dry_run, FALSE, FALSE, table, table, << >>)
    /\ UNCHANGED table
    /\ UpdateFrame

\* the ids of the first n updates
UpdatedIds(n) == [ k \in 1..n |-> run.updates[k].id ]

\* .update({'overall_rank': ...}).eq('id', ...) for the next entry of updates
Update ==
    /\ run.pc = "updating"
    /\ LET update == run.updates[run.i]
       IN /\ table' = [ table EXCEPT ![update.id].overall_rank = update.overall_rank ]
          /\ IF run.i = Len(run.updates)
             THEN Return(run.dry_run, TRUE, TRUE, run.before, table', UpdatedIds(run.i))
             ELSE /\ run' = [ run EXCEPT !.i = run.i + 1 ]
                  /\ UNCHANGED history
    /\ UpdateFrame

\* the update raises: the inner except returns False
UpdateFails ==
    /\ run.pc = "updating"
    /\ Return(run.dry_run, TRUE, FALSE, run.before, table, UpdatedIds(run.i - 1))
    /\ UNCHANGED table
    /\ UpdateFrame

NextUpdate ==
    \/ \E dry_run \in BOOLEAN : \E order \in Orders(run.season) : Fetch(dry_run, order)
    \/ \E dry_run \in BOOLEAN : FetchFails(dry_run)
    \/ Update
    \/ UpdateFails

SpecUpdate == InitUpdate /\ [][NextUpdate]_vars

(***************************************************************************)
(* Properties                                                              *)
(***************************************************************************)
Scored == pc = "scored"

\* the batch reached min_sample_size, so calculate_zscores scored it
BigBatch == Len(player_stats) >= min_sample_size

\* no ranking call has touched the records calculate_zscores returned
Fresh == Scored /\ ncalls = 0

\* the input records carry raw statistics only, no zscore_* or *_rank field
RawInput ==
    \A i \in DOMAIN player_stats :
        DOMAIN player_stats[i] \subseteq
            {"player_id", "points", "turnovers", "field_goal_percentage",
             "field_goals_attempted"}

\* C1: a batch with fewer records than min_sample_size (the empty batch
\* included) is returned as it was given: the same records, nothing added.
C1_SmallBatchPassThrough ==
    (Fresh /\ Len(player_stats) < min_sample_size) => result = player_stats

C1_Witness ==
    /\ Fresh
    /\ Len(player_stats) = min_sample_size - 1
    /\ result = player_stats

\* C2: for a batch of size >= min_sample_size every returned record has a
\* zscore_total, and it is a number (not NaN).
C2_TotalFinite ==
    (Scored /\ BigBatch /\ RawInput) =>
        \A i \in DOMAIN result :
            "zscore_total" \in DOMAIN result[i] /\ result[i]["zscore_total"] # NaN

\* C3: for a batch of size >= min_sample_size the output has one record per
\* input record, in the same order, with the same player identifier.
C3_SamePlayersSameOrder ==
    (Scored /\ BigBatch) =>
        /\ Len(result) = Len(player_stats)
        /\ \A i \in DOMAIN player_stats :
               result[i]["player_id"] = player_stats[i]["player_id"]

C3_Witness ==
    /\ Scored /\ BigBatch
    /\ Len(result) = min_sample_size + 1
    /\ result[Len(result)]["player_id"] = Len(result)

\* C4 as claimed: every returned record has exactly its input fields plus
\* zscore_<category> for every configured category plus zscore_total.
C4_FieldsOfEveryCategory ==
    (Fresh /\ BigBatch) =>
        \A i \in DOMAIN result :
            DOMAIN result[i] =
                DOMAIN player_stats[i] \cup { ZCol(c) : c \in CategorySet }
                    \cup {"zscore_total"}

\* C4 amended: every returned record has exactly the columns of the batch (the
\* union of the input records' fields) plus zscore_<category> for every
\* configured category that is a column of the batch plus zscore_total.
C4_FieldsOfScoredCategories ==
    (Fresh /\ BigBatch) =>
        \A i \in DOMAIN result :
            DOMAIN result[i] =
                Columns(player_stats)
                    \cup { ZCol(c) : c \in CategorySet \cap Columns(player_stats) }
                    \cup {"zscore_total"}

\* a scored batch whose records do not all have the same fields and in which a
\* configured category is a column while another is not
C4_Witness ==
    /\ Fresh /\ BigBatch
    /\ \E i \in DOMAIN player_stats : DOMAIN player_stats[i] # Columns(player_stats)
    /\ "zscore_turnovers" \in DOMAIN result[1]
    /\ "zscore_steals" \notin DOMAIN result[1]

\* the fields calculate_zscores writes
WrittenFields(stats) ==
    { ZCol(c) : c \in CategorySet \cap Columns(stats) }
        \cup {"zscore_turnovers", "zscore_total"}

SameValue(stats, category) ==
    \A i \in DOMAIN stats :
        /\ category \in DOMAIN stats[i]
        /\ IsNum(stats[i][category])
        /\ stats[i][category] = stats[1][category]

\* C6: if every player of a batch of size >= min_sample_size has the same
\* value for category C, zscore_C is 0 for every player.
C6_ZeroVariance ==
    (Scored /\ BigBatch) =>
        \A c \in CategorySet :
            SameValue(player_stats, c) =>
                \A i \in DOMAIN result : result[i][ZCol(c)] = 0

\* records a and b of the input differ in turnovers only, a having fewer
FewerTurnovers(a, b) ==
    /\ DOMAIN player_stats[a] = DOMAIN player_stats[b]
    /\ "turnovers" \in DOMAIN player_stats[a]
    /\ \A f \in DOMAIN player_stats[a] \ {"player_id", "turnovers"} :
           player_stats[a][f] = player_stats[b][f]
    /\ IsNum(player_stats[a]["turnovers"]) /\ IsNum(player_stats[b]["turnovers"])
    /\ player_stats[a]["turnovers"] < player_stats[b]["turnovers"]

\* x >= y on floats
FGe(x, y) == x # NaN /\ y # NaN /\ x >= y

\* C7: of two players of a scored batch that differ in turnovers only, the
\* one with fewer turnovers has zscore_turnovers >= the other's.
C7_TurnoverInversion ==
    (Scored /\ BigBatch) =>
        \A a, b \in DOMAIN player_stats :
            FewerTurnovers(a, b) =>
                FGe(result[a]["zscore_turnovers"], result[b]["zscore_turnovers"])

C7_Witness ==
    /\ Scored /\ BigBatch
    /\ \E a, b \in DOMAIN player_stats :
           /\ FewerTurnovers(a, b)
           /\ FGt(result[a]["zscore_turnovers"], result[b]["zscore_turnovers"])

\* C8: after get_overall_rankings on N records the returned list has N
\* entries and each of 1..N is the overall_rank of exactly one record; for
\* the empty batch the returned list is empty.
C8_RankBijection ==
    ncalls >= 1 =>
        /\ Len(sorted_stats) = Len(result)
        /\ \A i \in DOMAIN result : "overall_rank" \in DOMAIN result[i]
        /\ \A r \in 1..Len(result) :
               Cardinality({ i \in DOMAIN result : result[i]["overall_rank"] = r }) = 1

C8_Witness ==
    /\ ncalls >= 1
    /\ Len(result) >= min_sample_size
    /\ \E i, j \in DOMAIN result :
           /\ i # j
           /\ result[i]["zscore_total"] = result[j]["zscore_total"]

\* the position of record i in the list given to the latest ranking call
InputPosition(i) == CHOOSE j \in DOMAIN last_input : last_input[j] = i

TotalKey(i) == Get(result[i], "zscore_total", 0)

\* C9: the list get_overall_rankings returns has zscore_total non-increasing,
\* overall_rank equal to the position, and records with equal zscore_total in
\* the order of the list it was given (stated for batches of raw statistics).
C9_SortedStableRanks ==
    (ncalls >= 1 /\ RawInput) =>
        /\ \A j \in DOMAIN sorted_stats : result[sorted_stats[j]]["overall_rank"] = j
        /\ \A j, k \in DOMAIN sorted_stats :
               j < k =>
                   /\ FGe(TotalKey(sorted_stats[j]), TotalKey(sorted_stats[k]))
                   /\ TotalKey(sorted_stats[j]) = TotalKey(sorted_stats[k]) =>
                          InputPosition(sorted_stats[j]) < InputPosition(sorted_stats[k])

\* C10: a second get_overall_rankings call, on the original list or on the
\* list the first call returned, gives every player the overall_rank of the
\* first call.
C10_RankingIdempotent ==
    ncalls = 2 =>
        \A i \in DOMAIN result : result[i]["overall_rank"] = first_rank[i]

\* the second call was made on the returned list, which is ordered otherwise
\* than the original list and has ties
C10_Witness ==
    /\ ncalls = 2
    /\ Len(result) >= min_sample_size
    /\ last_input # [ i \in 1..Len(result) |-> i ]
    /\ \E i, j \in DOMAIN result : i # j /\ TotalKey(i) = TotalKey(j)
    /\ \A i \in DOMAIN result : result[i]["overall_rank"] = first_rank[i]

\* the categories that are a column of the batch and have a configured weight
WeightedPresent(stats) ==
    { c \in CategorySet : c \in Columns(stats) /\ c \in DOMAIN weights }

\* the sum of term[c] over the categories c of cats (NaN when a term is NaN)
RECURSIVE FSumOver(_, _)
FSumOver(cats, term) ==
    IF cats = {} THEN 0
    ELSE LET c == CHOOSE c \in cats : TRUE
         IN FAdd(term[c], FSumOver(cats \ {c}, term))

\* sum of zscore_<category> * |weight| over cats, divided by the sum of |weight|
WeightedMean(row, cats) ==
    FDiv(FSumOver(cats, [ c \in cats |-> FMul(row[ZCol(c)], Abs(weights[c])) ]),
         FSumOver(cats, [ c \in cats |-> Abs(weights[c]) ]))

ScoredWeight(records) == TotalWeight(Columns(records), Len(categories))

\* C12: when the sum of the absolute weights over the scored categories is 0,
\* zscore_total is 0 for every player of a scored batch.
C12_ZeroWeightZeroTotal ==
    (Scored /\ BigBatch /\ ScoredWeight(result) = 0) =>
        \A i \in DOMAIN result : result[i]["zscore_total"] = 0

\* the present calculator was constructed with the configuration of the
\* previous one except for a larger |weight| of category c, and has scored
\* the batch the previous one scored
RaisedWeight(c) ==
    /\ prev # << >> /\ Scored /\ BigBatch
    /\ config.categories = prev.config.categories
    /\ config.negative_categories = prev.config.negative_categories
    /\ DOMAIN config.weights = DOMAIN prev.config.weights
    /\ c \in DOMAIN config.weights
    /\ \A d \in DOMAIN config.weights \ {c} : config.weights[d] = prev.config.weights[d]
    /\ Abs(config.weights[c]) > Abs(prev.config.weights[c])

\* players i and j have numbers as z-scores, which differ for category c only
DifferInOnly(records, i, j, c) ==
    /\ ZCol(c) \in DOMAIN records[i]
    /\ records[i][ZCol(c)] # records[j][ZCol(c)]
    /\ \A d \in CategorySet :
           ZCol(d) \in DOMAIN records[i] =>
               /\ IsNum(records[i][ZCol(d)]) /\ IsNum(records[j][ZCol(d)])
               /\ d # c => records[i][ZCol(d)] = records[j][ZCol(d)]

\* the change of zscore_total between players i and j
TotalChange(records, i, j) ==
    Abs(records[i]["zscore_total"] - records[j]["zscore_total"])

\* the sum of |weight| over the scored categories other than c
OtherWeight(c) == ScoredWeight(result) - Abs(weights[c])

\* C13 as claimed: with the other weights fixed, whatever they are, a larger
\* |weight_C| gives a strictly larger change of zscore_total for the same
\* change of zscore_C.
C13_SensitivityIncreases ==
    \A c \in CategorySet :
        RaisedWeight(c) =>
            \A i, j \in DOMAIN result :
                DifferInOnly(result, i, j, c) =>
                    TotalChange(result, i, j) > TotalChange(prev.result, i, j)

\* C13 amended: the change is strictly larger when another scored category
\* has a nonzero weight; when none has, zscore_total is zscore_C for every
\* nonzero weight_C and the change stays the same (it grows from 0 when
\* weight_C was 0).
C13_SensitivityIncreasesAgainstOthers ==
    \A c \in CategorySet :
        RaisedWeight(c) =>
            \A i, j \in DOMAIN result :
                DifferInOnly(result, i, j, c) =>
                    IF OtherWeight(c) > 0 \/ prev.config.weights[c] = 0
                    THEN TotalChange(result, i, j) > TotalChange(prev.result, i, j)
                    ELSE /\ TotalChange(result, i, j) = TotalChange(prev.result, i, j)
                         /\ result[i]["zscore_total"] = result[i][ZCol(c)]

\* the weight of points was raised from 0.5 to 2.0 beside turnovers at 1.0,
\* and two players differ in zscore_points only
C13_Witness ==
    /\ RaisedWeight("points")
    /\ OtherWeight("points") > 0
    /\ prev.config.weights["points"] > 0
    /\ \E i, j \in DOMAIN result :
           /\ DifferInOnly(result, i, j, "points")
           /\ TotalChange(result, i, j) > TotalChange(prev.result, i, j)

\* player i of the input made attempts at a positive field goal percentage
ValidShooter(i) ==
    /\ {"field_goal_percentage", "field_goals_attempted"} \subseteq DOMAIN player_stats[i]
    /\ IsNum(player_stats[i]["field_goal_percentage"])
    /\ IsNum(player_stats[i]["field_goals_attempted"])
    /\ player_stats[i]["field_goal_percentage"] > 0
    /\ player_stats[i]["field_goals_attempted"] > 0

ValidShooters == { i \in DOMAIN player_stats : ValidShooter(i) }

\* the sign of (percentage of player i - league mean percentage), the league
\* being the valid shooters
AboveLeagueMean(i) ==
    Sgn(Cardinality(ValidShooters) * player_stats[i]["field_goal_percentage"]
            - FSumOver(ValidShooters,
                       [ k \in ValidShooters |-> player_stats[k]["field_goal_percentage"] ]))

\* C14: of two valid players of a scored batch with the same
\* field_goal_percentage (not the league mean), the one with more attempts
\* has a zscore_field_goal_percentage of strictly larger magnitude, and both
\* z-scores have the sign of (percentage - league mean percentage); a z-score
\* below the precision kept (0 here) is taken to have that sign.
C14_MoreAttemptsLargerMagnitude ==
    (Scored /\ BigBatch) =>
        \A a, b \in ValidShooters :
            ( /\ player_stats[a]["field_goal_percentage"]
                     = player_stats[b]["field_goal_percentage"]
              /\ player_stats[a]["field_goals_attempted"]
                     < player_stats[b]["field_goals_attempted"]
              /\ AboveLeagueMean(a) # 0 ) =>
                LET za == result[a]["zscore_field_goal_percentage"]
                    zb == result[b]["zscore_field_goal_percentage"]
                IN /\ IsNum(za) /\ IsNum(zb)
                   /\ Abs(zb) > Abs(za)
                   /\ Sgn(za) \in {0, AboveLeagueMean(a)}
                   /\ Sgn(zb) \in {0, AboveLeagueMean(a)}

\* players a and b of the input have numbers for category c, a the lower one
LowerRaw(a, b, c) ==
    /\ c \in DOMAIN player_stats[a] /\ c \in DOMAIN player_stats[b]
    /\ IsNum(player_stats[a][c]) /\ IsNum(player_stats[b][c])
    /\ player_stats[a][c] < player_stats[b][c]

\* C16: for every category listed in negative_categories, of two players of
\* a scored batch the one with the lower raw value has a zscore_<category>
\* that is at least the other's.
C16_NegativeCategoriesInverted ==
    (Scored /\ BigBatch) =>
        \A c \in negative_categories :
            \A a, b \in DOMAIN player_stats :
                LowerRaw(a, b, c) => FGe(result[a][ZCol(c)], result[b][ZCol(c)])

\* the latest call was op and it returned
Called(op) == call # << >> /\ call.op = op /\ pc # "raised"

\* the categories C15 names
DominatedCategories == {"points", "total_rebounds", "assists", "turnovers"}

\* player i has a number for category c that is above (below, for turnovers)
\* the value of every other player, None and a missing value counting as 0
Best(i, c) ==
    LET value(k) == IF c \in DOMAIN player_stats[k] /\ IsNum(player_stats[k][c])
                    THEN player_stats[k][c] ELSE 0
    IN /\ c \in DOMAIN player_stats[i] /\ IsNum(player_stats[i][c])
       /\ \A k \in DOMAIN player_stats \ {i} :
              IF c = "turnovers" THEN value(i) < value(k) ELSE value(i) > value(k)

\* player i is the one player with the highest points, total_rebounds and
\* assists and the lowest turnovers, as far as the batch has these columns
Dominates(i) ==
    /\ {"points", "turnovers"} \subseteq Columns(player_stats)
    /\ \A c \in DominatedCategories \cap Columns(player_stats) : Best(i, c)

\* C15 as claimed: after calculate_zscores and get_overall_rankings on a batch
\* of at least min_sample_size players, the player with the highest points,
\* total_rebounds and assists and the lowest turnovers has overall_rank 1.
C15_DominatingPlayerFirst ==
    (Called("get_overall_rankings") /\ BigBatch) =>
        \A i \in DOMAIN player_stats : Dominates(i) => result[i]["overall_rank"] = 1

\* C15 amended: that player has overall_rank 1 when the batch has no other
\* configured category than these four.
C15_DominatingPlayerFirstOfFour ==
    ( /\ Called("get_overall_rankings") /\ BigBatch
      /\ CategorySet \cap Columns(player_stats) \subseteq DominatedCategories ) =>
        \A i \in DOMAIN player_stats : Dominates(i) => result[i]["overall_rank"] = 1

\* the second player of the list dominates and is ranked first
C15_Witness ==
    /\ Called("get_overall_rankings") /\ BigBatch
    /\ CategorySet \cap Columns(player_stats) \subseteq DominatedCategories
    /\ Dominates(2)
    /\ result[2]["overall_rank"] = 1
    /\ sorted_stats[1] = 2

\* the returned list holds each record of list once
IsPermutationOf(sorted, list) ==
    /\ Len(sorted) = Len(list)
    /\ \A i \in Range(list) : Cardinality({ j \in DOMAIN sorted : sorted[j] = i }) = 1

\* rank_field holds the position in the returned list
RanksArePositions(sorted, rank_field) ==
    \A j \in DOMAIN sorted :
        /\ rank_field \in DOMAIN result[sorted[j]]
        /\ result[sorted[j]][rank_field] = j

\* down the returned list the key is non-increasing
Descending(sorted, field) ==
    \A j, k \in DOMAIN sorted :
        j < k => FGe(Get(result[sorted[j]], field, 0), Get(result[sorted[k]], field, 0))

\* records with equal keys are in the order of the list given
StableOrder(sorted, field) ==
    \A j, k \in DOMAIN sorted :
        (j < k /\ Get(result[sorted[j]], field, 0) = Get(result[sorted[k]], field, 0))
            => sorted[j] < sorted[k]

\* field has in every record the value it had before the latest call, or is
\* in no record as before
FieldUntouched(field) ==
    \A i \in DOMAIN result :
        /\ (field \in DOMAIN result[i]) = (field \in DOMAIN call.before[i])
        /\ field \in DOMAIN result[i] => result[i][field] = call.before[i][field]

\* C17: get_category_rankings(records, C) returns the records in stable
\* descending order of zscore_C with the 1-based position in C_rank, each of
\* 1..N once, and leaves overall_rank as it was.
C17_CategoryRankings ==
    Called("get_category_rankings") =>
        /\ IsPermutationOf(sorted_stats, ResultList)
        /\ Descending(sorted_stats, ZCol(call.arg))
        /\ StableOrder(sorted_stats, ZCol(call.arg))
        /\ RanksArePositions(sorted_stats, RankCol(call.arg))
        /\ FieldUntouched("overall_rank")

\* record i had, before the latest call, a position equal to p ignoring case
HasPosition(i, p) ==
    /\ "position" \in DOMAIN call.before[i]
    /\ upper(call.before[i]["position"]) = upper(p)

\* C18: get_position_rankings(records, P) returns exactly the records whose
\* position equals P ignoring case, in descending order of zscore_total,
\* with the ranks 1..k in lowercase(P)_rank; the other records are not
\* returned and get no such field.
C18_PositionRankings ==
    (call # << >> /\ call.op = "get_position_rankings") =>
        /\ pc # "raised"
        /\ Range(sorted_stats) = { i \in DOMAIN result : HasPosition(i, call.arg) }
        /\ Cardinality(Range(sorted_stats)) = Len(sorted_stats)
        /\ Descending(sorted_stats, "zscore_total")
        /\ RanksArePositions(sorted_stats, RankCol(lower(call.arg)))
        /\ \A i \in DOMAIN result \ Range(sorted_stats) :
               (RankCol(lower(call.arg)) \in DOMAIN result[i])
                   = (RankCol(lower(call.arg)) \in DOMAIN call.before[i])

\* the z-score fields of the records given to calculate_percentiles, each
\* with the percentile field it belongs to
PercentileFields ==
    { << ZCol(c), PercentileCol(c) >> :
        c \in { c \in CategorySet : ZCol(c) \in Columns(call.before) } }
        \cup (IF "zscore_total" \in Columns(call.before)
              THEN { << "zscore_total", "overall_percentile" >> } ELSE {})

\* twice the average rank of record i for field z: the records with a lower
\* value come first and the records with the same value share their ranks
TwiceAverageRank(records, i, z) ==
    2 * Cardinality({ k \in DOMAIN records : FLt(records[k][z], records[i][z]) })
        + Cardinality({ k \in DOMAIN records : records[k][z] = records[i][z] }) + 1

\* C19: calculate_percentiles gives every player, for every scored category
\* and for zscore_total, a percentile between 0 and 100 that is
\* 100 * average rank / N to one decimal (percentiles are held in tenths);
\* a higher z-score never has the lower percentile and equal z-scores have
\* equal percentiles.
C19_Percentiles ==
    Called("calculate_percentiles") =>
        \A zp \in PercentileFields :
            LET N == Len(call.out)
            IN /\ \A i \in DOMAIN call.out :
                      /\ zp[2] \in DOMAIN call.out[i]
                      /\ IsNum(call.out[i][zp[2]])
                      /\ call.out[i][zp[2]] >= 0 /\ call.out[i][zp[2]] <= 1000
                      /\ Abs(2 * N * call.out[i][zp[2]]
                                 - 1000 * TwiceAverageRank(call.before, i, zp[1])) <= N
               /\ \A i, j \in DOMAIN call.out :
                      /\ FGt(call.out[i][zp[1]], call.out[j][zp[1]])
                             => call.out[i][zp[2]] >= call.out[j][zp[2]]
                      /\ call.out[i][zp[1]] = call.out[j][zp[1]]
                             => call.out[i][zp[2]] = call.out[j][zp[2]]

\* C20: no step of an invocation changes the configuration of the
\* calculator, and whatever the interleaving of the steps of the
\* invocations, each returns what calculate_zscores returns for its batch
\* when it runs alone.
C20_InterleavingIndependent ==
    pc = "threads" =>
        /\ config = ZSCORE_CONFIG
        /\ \A t \in Threads :
               threads[t].pc = "done" =>
                   threads[t].result = calculate_zscores(threads[t].player_stats)

\* both invocations have returned, on different batches of at least
\* min_sample_size players
C20_Witness ==
    /\ pc = "threads"
    /\ \A t \in Threads : threads[t].pc = "done"
    /\ threads[1].player_stats # threads[2].player_stats
    /\ \A t \in Threads : Len(threads[t].player_stats) >= min_sample_size
    /\ \A t \in Threads :
           threads[t].result = calculate_zscores(threads[t].player_stats)

\* the keys of the ranking calls: overall, a category, a position
RankKeys ==
    { << "overall", "" >> } \cup { << "category", c >> : c \in RankedCategories }
        \cup { << "position", p >> : p \in PositionArguments }

\* the rank field the call for key k writes
RankFieldOf(k) ==
    CASE k[1] = "overall" -> "overall_rank"
      [] k[1] = "category" -> RankCol(k[2])
      [] OTHER -> RankCol(lower(k[2]))

\* the records after the one call for key k on the scored batch fresh
SingleCall(k, fresh) ==
    LET list == [ i \in 1..Len(fresh) |-> i ]
    IN CASE k[1] = "overall" ->
              WithOverallRank(fresh, Concrete(sorted_overall(fresh, list)))
         [] k[1] = "category" ->
              WithRank(fresh, Concrete(sorted_by(fresh, list, ZCol(k[2]))), RankCol(k[2]))
         [] OTHER ->
              IF NoUpper(fresh) THEN fresh
              ELSE WithRank(fresh,
                            Concrete(sorted_by(fresh,
                                Concrete(position_players(fresh, list, k[2])),
                                "zscore_total")),
                            RankCol(lower(k[2])))

\* the z-score fields calculate_zscores writes
ZFields == { ZCol(c) : c \in CategorySet } \cup {"zscore_total"}

\* the z-score fields of records are those of fresh, with the same values
SameZScores(records, fresh) ==
    \A i \in DOMAIN fresh :
        /\ DOMAIN records[i] \cap ZFields = DOMAIN fresh[i] \cap ZFields
        /\ \A f \in DOMAIN fresh[i] \cap ZFields : records[i][f] = fresh[i][f]

\* field is in the same records of a and b, with the same values
SameField(a, b, field) ==
    \A i \in DOMAIN a :
        /\ (field \in DOMAIN a[i]) = (field \in DOMAIN b[i])
        /\ field \in DOMAIN a[i] => a[i][field] = b[i][field]

\* C21: after any sequence of ranking and percentile calls on a scored batch,
\* every zscore_* value is the one calculate_zscores wrote (in the records and
\* in the records calculate_percentiles returned), and every rank field holds
\* what the single call for its key on the freshly scored batch would give.
C21_CallsDoNotInterfere ==
    (pc \in {"scored", "raised"} /\ BigBatch /\ ncalls >= 1) =>
        LET fresh == Concrete(calculate_zscores(player_stats))
        IN /\ SameZScores(result, fresh)
           /\ call.op = "calculate_percentiles" => SameZScores(call.out, fresh)
           /\ \A k \in RankKeys :
                  (\E i \in DOMAIN result : RankFieldOf(k) \in DOMAIN result[i])
                      => SameField(result, SingleCall(k, fresh), RankFieldOf(k))

\* two calls with different keys were made on a scored batch of players with
\* positions, the second one a position ranking that ranked somebody, and the
\* rank field of the first call is still there
C21_Witness ==
    /\ Scored /\ BigBatch /\ ncalls = 2
    /\ call.op = "get_position_rankings"
    /\ Len(sorted_stats) > 0
    /\ \E k \in RankKeys :
           /\ RankFieldOf(k) # RankCol(lower(call.arg))
           /\ \E i \in DOMAIN result : RankFieldOf(k) \in DOMAIN result[i]
           /\ \E i, j \in DOMAIN result :
                  Get(result[i], RankFieldOf(k), 0) # Get(result[j], RankFieldOf(k), 0)

\* the invocations of update_ranks_for_season with dry_run = true that returned
DryRuns == { n \in DOMAIN history : history[n].dry_run }

\* no update request is sent for a dry run, and none was
NoUpdateForDryRun ==
    /\ run.pc = "updating" => ~run.dry_run
    /\ \A n \in DryRuns :
           history[n].written = << >> /\ history[n].after = history[n].before

\* C22: update_ranks_for_season with dry_run = true issues no update to the
\* table, whatever the stored ranks are, and returns success.
C22_DryRunNoUpdateSuccess ==
    /\ NoUpdateForDryRun
    /\ \A n \in DryRuns : history[n].returned = TRUE

\* C22 as the code has it: no update is issued, and success is returned
\* unless the select of the season's rows raised, and then failure is.
C22_DryRunNoUpdateSuccessIfFetched ==
    /\ NoUpdateForDryRun
    /\ \A n \in DryRuns : history[n].returned = history[n].fetched

\* a dry run returned success for a season whose rows have no stored rank
C22_Witness ==
    \E n \in DryRuns :
        /\ history[n].fetched /\ history[n].returned
        /\ \E id \in Ids : history[n].before[id].season = history[n].season
        /\ \A id \in Ids : history[n].before[id].season = history[n].season
               => history[n].before[id].overall_rank = None

\* the invocations with dry_run = false that completed without an error
CompletedRuns ==
    { n \in DOMAIN history :
        ~history[n].dry_run /\ history[n].fetched /\ history[n].returned }

\* the rows of the season of invocation n
RowsOf(n) == { id \in Ids : history[n].before[id].season = history[n].season }

\* in t the ranks of the rows ids are 1..N, along descending zscore_total
RankedDescending(t, ids) ==
    /\ \A id \in ids : t[id].overall_rank \in 1..Cardinality(ids)
    /\ \A a, b \in ids : a # b => t[a].overall_rank # t[b].overall_rank
    /\ \A a, b \in ids :
           t[a].overall_rank < t[b].overall_rank
               => Desc(t[a].zscore_total, t[b].zscore_total)

\* invocation n wrote, once each, the rows whose stored rank differed
WroteChangedOnly(n) ==
    LET h == history[n]
    IN /\ Range(h.written) = { id \in RowsOf(n) :
                                 h.before[id].overall_rank # h.after[id].overall_rank }
       /\ Cardinality(Range(h.written)) = Len(h.written)
       /\ \A id \in Ids \ RowsOf(n) : h.after[id] = h.before[id]

\* C30: after a non-dry update_ranks_for_season completed without an error,
\* every row of the season has as overall_rank its 1-based position in
\* descending zscore_total order, only rows whose stored rank differed were
\* written, and the immediately repeated run writes no row.
C30_RanksStoredOnceAndForAll ==
    \A n \in CompletedRuns :
        /\ RankedDescending(history[n].after, RowsOf(n))
        /\ WroteChangedOnly(n)
        /\ (n + 1) \in DOMAIN history => history[n + 1].written = << >>

\* the raw values of a category in the input, a missing or null value as 0
RawValues(category) ==
    [ i \in DOMAIN player_stats |->
        LET v == Get(player_stats[i], category, None)
        IN IF v \in {None, NaN} THEN 0 ELSE v ]

\* the non-rate categories of the batch that are scored higher-is-better
PositiveCategories ==
    (CategorySet \ (RateCategories \cup negative_categories)) \cap Columns(player_stats)

\* the values at or above the 60th percentile (linear interpolation)
AtOrAbove60th(values) ==
    SelectSeq(values, LAMBDA v : 5 * v >= Quantile5(values, 3))

AtOrBelow40th(values) ==
    SelectSeq(values, LAMBDA v : 5 * v <= Quantile5(values, 2))

BatchRateCategories == RateCategories \cap Columns(player_stats)

\* record i of the input has field with a value that is not null
Present(i, field) ==
    field \in DOMAIN player_stats[i] /\ player_stats[i][field] \notin {None, NaN}

\* player i is valid for rate category c: percentage and attempts present,
\* non-null and > 0
IsValid(i, c) ==
    /\ Present(i, c) /\ player_stats[i][c] > 0
    /\ Present(i, attempts_column(c)) /\ player_stats[i][attempts_column(c)] > 0

ValidPlayers(c) ==
    SelectSeq([ i \in DOMAIN player_stats |-> i ], LAMBDA i : IsValid(i, c))

\* (percentage - mean_percentage) * attempts of a valid player, times the
\* number of valid players
Impact(i, c) ==
    LET valid == ValidPlayers(c)
        psum  == Sum([ j \in DOMAIN valid |-> player_stats[valid[j]][c] ])
    IN (Len(valid) * player_stats[i][c] - psum) * player_stats[i][attempts_column(c)]

Impacts(c) ==
    LET valid == ValidPlayers(c) IN [ j \in DOMAIN valid |-> Impact(valid[j], c) ]

\* the z-scores of rate category c are those of the impact weighting: 0 for
\* an invalid player, (impact - mean_impact) / std_impact for a valid one
\* when std_impact is a number other than 0
ImpactWeighted(c) ==
    LET impacts == Concrete(Impacts(c))
    IN \A i \in DOMAIN result :
           /\ ~IsValid(i, c) => result[i][ZCol(c)] = 0
           /\ (IsValid(i, c) /\ Len(impacts) >= 2 /\ Dev(impacts) # 0) =>
                  result[i][ZCol(c)] =
                      ZQuot(Impact(i, c), Len(impacts), Sum(impacts), Dev(impacts))

\* the z-scores of rate category c are the plain ones of the percentages,
\* missing as 0, against all players
PlainZScores(c) ==
    LET values == Concrete(RawValues(c))
    IN \A i \in DOMAIN result :
           result[i][ZCol(c)] =
               IF Dev(values) = 0 THEN 0
               ELSE ZQuot(values[i], Len(values), Sum(values), Dev(values))

ImpactWithoutSpread(c) ==
    LET impacts == Concrete(Impacts(c))
    IN \A i \in DOMAIN result :
           IsValid(i, c) =>
               /\ Len(impacts) = 1 => result[i][ZCol(c)] = NaN
               /\ (Len(impacts) >= 2 /\ Dev(impacts) = 0) => result[i][ZCol(c)] = 0

NoSpreadOfImpacts(c) ==
    LET impacts == Impacts(c)
    IN Len(impacts) = 0 \/ (Len(impacts) >= 2 /\ Dev(impacts) = 0)

AllZero(c) == \A i \in DOMAIN result : result[i][ZCol(c)] = 0

NonRateCategories == (CategorySet \ RateCategories) \cap Columns(player_stats)

\* the batch with 0 written where a record has no value, or null, for a
\* non-rate category
ZeroFilled(stats) ==
    [ i \in DOMAIN stats |->
        [ c \in { c \in NonRateCategories : ~Present(i, c) } |-> 0 ] @@ stats[i] ]

BatchTopPerformers(c) ==
    TopPerformers(Fillna0(Column(DataFrame(player_stats), c)), c)

\* C28: for every batch of at least min_sample_size players and every
\* non-rate category the reference subset has at least 2 members, so the
\* fallback to the mean and std of the whole batch is never taken.
C28_ReferenceSubsetOfTwoOrMore ==
    (Fresh /\ BigBatch) =>
        \A c \in NonRateCategories :
            LET values == Concrete(Fillna0(Column(DataFrame(player_stats), c)))
            IN /\ Len(BatchTopPerformers(c)) >= 2
               /\ Reference(values, c) = TopPerformers(values, c)

\* a scored batch of min_sample_size players where the reference subsets of
\* points and of turnovers are proper subsets, that of points a half at most
C28_Witness ==
    /\ Fresh /\ BigBatch
    /\ Len(player_stats) = min_sample_size
    /\ {"points", "turnovers"} \subseteq NonRateCategories
    /\ 2 * Len(BatchTopPerformers("points")) <= Len(player_stats)
    /\ Len(BatchTopPerformers("turnovers")) < Len(player_stats)

\* every record of the input has every configured category field
EveryCategoryField ==
    \A i \in DOMAIN player_stats : CategorySet \subseteq DOMAIN player_stats[i]

\* C29: for a batch of at least min_sample_size records that all have every
\* configured category field, calculate_zscores of the list calculate_zscores
\* returned has the same zscore_<category> and zscore_total for every player
\* (zscore_turnovers is not negated a second time).
C29_RescoringIdempotent ==
    (pc = "rescored" /\ BigBatch /\ EveryCategoryField) =>
        /\ Len(result) = Len(prev.result)
        /\ SameZScores(result, prev.result)
        /\ \A i \in DOMAIN result : ZFields \subseteq DOMAIN result[i]

\* a batch with every category was scored twice; turnovers z-scores differ
\* from 0 and from their negation, and a player has points null
C29_Witness ==
    /\ pc = "rescored" /\ BigBatch /\ EveryCategoryField
    /\ \E i, j \in DOMAIN result :
           /\ result[i]["zscore_turnovers"] > 0
           /\ result[i]["zscore_turnovers"] = prev.result[i]["zscore_turnovers"]
           /\ player_stats[j]["points"] = None
           /\ IsNum(result[j]["zscore_total"]) /\ result[j]["zscore_total"] # 0

====
